---- MODULE Spec2Model ----
(***************************************************************************)
(* Model of src/src/context.ts: createContext (provider binding, consumer  *)
(* binding, watch) over a small fixed element tree, and derivedContext     *)
(* (derived provider binding) over two elements of one class.              *)
(*                                                                         *)
(* Element tree (outermost first):  P1 > P2 > {K1, K2};  D1, D2 apart.     *)
(* The lifecycle hooks connectedCallback / disconnectedCallback of every   *)
(* element are run by the host, one hook call is one action.               *)
(***************************************************************************)
EXTENDS Integers, Sequences, FiniteSets, TLC

\* ------------------------------------------------------------------ bounds
\* Number of attaches (connectedCallback calls) of consumers, and of derived
\* providers, in one behaviour.
MaxAttaches == 2
\* Largest offset of a context value from the context's default value.
MaxValue == 1

\* ---------------------------------------------------------------- elements
Providers == {"P1", "P2"}
Consumers == {"K1", "K2"}
Contexts  == {"A", "B"}

\* The contexts in the order their decorators were applied to a class.
ContextOrder == <<"A", "B">>

\* Ancestors of a consumer that is in the tree, nearest first.
Ancestors(k) == <<"P2", "P1">>

\* createContext(defaultValue): the default value of each context.
DefaultValue(c) == IF c = "A" THEN 0 ELSE 5

\* The values a provider property of context c is set to.
ValuesOf(c) == DefaultValue(c) .. (DefaultValue(c) + MaxValue)

\* The value of a map key that is absent / a property never assigned.
NoEntry == -1

\* options.transform of each consumer class; (v) => v when not given.
transform(k, v) == IF k = "K2" THEN v + 10 ELSE v

\* A consumer's update callback (detail.onProviderUpdate) is created once
\* per attach of consumer k for context c; cyc numbers the attach.
Callback(k, c, cyc) == [k |-> k, c |-> c, cyc |-> cyc]

\* Every callback a consumer can create within the bound on attaches.
AllCallbacks ==
  {Callback(k, c, cyc) :
     k \in Consumers, c \in Contexts, cyc \in 1..MaxAttaches}

VARIABLES
  provides,     \* provider element -> contexts its class was decorated with
  consumes,     \* consumer element -> contexts its class was decorated with
  pAttached,    \* provider element -> its connectedCallback ran last
  kAttached,    \* consumer element -> its connectedCallback ran last
  connectL,     \* provider element -> contexts whose onConsumerConnect listens
  contextMap,   \* provider element -> context -> stored value or NoEntry
  updateL,      \* provider element -> listeners of the update event, in order
  discL,        \* consumer element -> listeners of the disconnect event
  retrying,     \* discoveries (callbacks) whose retry timer is pending
  cycle,        \* consumer element -> number of attaches so far
  prop,         \* consumer element -> context -> bound property value
  last,         \* record of the last hook / call that ran (history)
  dAttached,    \* derived-provider elements whose connectedCallback ran last
  dConnectL,    \* derived-provider element -> contexts whose
                \*   onConsumerConnect listens on it
  upMap,        \* derived-provider element -> i -> stored value of upstream
                \*   context i on it, or NoEntry
  derivedMap,   \* derived-provider element -> stored derived value or NoEntry
  watchL,       \* derived-provider element -> watch listeners, in order
  ready,        \* provideDerivedContext: let ready (one per decorated class)
  values,       \* provideDerivedContext: const values (one per class)
  dispose,      \* provideDerivedContext: const dispose (one per class)
  dcycle,       \* derived-provider element -> number of attaches so far
  dlast         \* record of the last derived-provider hook / call (history)

\* The state of createContext's provider and consumer bindings.
cvars == <<provides, consumes, pAttached, kAttached, connectL, contextMap,
           updateL, discL, retrying, cycle, prop, last>>

\* The state of derivedContext's provider binding.
dvars == <<dAttached, dConnectL, upMap, derivedMap, watchL, ready, values,
           dispose, dcycle, dlast>>

vars == <<cvars, dvars>>

\* ------------------------------------------------------------ event system
\* EventTarget.addEventListener: the same listener is not added twice.
AddEventListener(list, fn) ==
  IF \E i \in 1..Len(list) : list[i] = fn THEN list ELSE Append(list, fn)

\* EventTarget.removeEventListener.
RemoveEventListener(list, fn) == SelectSeq(list, LAMBDA x : x # fn)

\* <Context>Event.validate(event): the event was created by context c.
Validate(evCtx, c) == evCtx = c

\* notEqual(newValue, oldValue) of utils.
notEqual(a, b) == a # b

\* ------------------------------------------------------- working state
\* The part of the state that nested handlers change while one hook runs,
\* plus what the hook did (update events dispatched, update callbacks that
\* accepted an event, connect events claimed, disconnect cleanups that
\* removed a registered callback) and the propagation flag.
Cur ==
  [updateL |-> updateL, discL |-> discL, retrying |-> retrying, prop |-> prop,
   events |-> <<>>, delivered |-> <<>>, claimed |-> <<>>, cleaned |-> <<>>,
   stopped |-> FALSE]

\* propertyDescriptor.get
Get(cm, p, c) == IF cm[p][c] # NoEntry THEN cm[p][c] ELSE DefaultValue(c)

\* OnProviderUpdate without the validation of the event's context.
OnProviderUpdateNoValidate(s, cb, evCtx, detail) ==
  [s EXCEPT !.prop[cb.k][cb.c] = transform(cb.k, detail),
            !.delivered = Append(@, cb)]

\* detail.onProviderUpdate of callback cb, called with an update event of
\* context evCtx carrying detail.
OnProviderUpdate(s, cb, evCtx, detail) ==
  IF ~Validate(evCtx, cb.c) THEN s
  ELSE [s EXCEPT !.prop[cb.k][cb.c] = transform(cb.k, detail),
                 !.delivered = Append(@, cb)]

\* dispatchEvent(update event) on a provider: its update listeners run in
\* the order they were added.
RECURSIVE DispatchUpdate(_, _, _, _)
DispatchUpdate(s, listeners, evCtx, detail) ==
  IF listeners = <<>> THEN s
  ELSE DispatchUpdate(OnProviderUpdate(s, Head(listeners), evCtx, detail),
                      Tail(listeners), evCtx, detail)

\* establishConnection.stop
StopLookingForProvider(s, cb) == [s EXCEPT !.retrying = @ \ {cb}]

\* detail.onConnectToProvider(onDisconnectFromProvider), called by the
\* claiming provider p: a wrapper of onDisconnectFromProvider is added to
\* the consumer's disconnect listeners.
DetailOnConnectToProvider(s, cb, p) ==
  LET s1 == StopLookingForProvider(s, cb)
  IN  [s1 EXCEPT !.discL[cb.k] =
         Append(@, [fn |-> "wrapper", p |-> p, cb |-> cb])]

\* OnConsumerConnect without event.stopImmediatePropagation().
OnConsumerConnectNoStop(s, p, c, cb) ==
  IF ~Validate(cb.c, c) THEN s
  ELSE
    LET s1 == [s EXCEPT !.claimed = Append(@, [p |-> p, cb |-> cb]),
                        !.updateL[p] = AddEventListener(@, cb)]
        s2 == DetailOnConnectToProvider(s1, cb, p)
    IN  OnProviderUpdate(s2, cb, c, Get(contextMap, p, c))

\* OnConsumerConnect without the initial onProviderUpdate call.
OnConsumerConnectNoPush(s, p, c, cb) ==
  IF ~Validate(cb.c, c) THEN s
  ELSE
    LET s1 == [s EXCEPT !.stopped = TRUE,
                        !.claimed = Append(@, [p |-> p, cb |-> cb]),
                        !.updateL[p] = AddEventListener(@, cb)]
    IN  DetailOnConnectToProvider(s1, cb, p)

\* OnConsumerConnect that puts the update callback before the listeners
\* already registered.
OnConsumerConnectFront(s, p, c, cb) ==
  IF ~Validate(cb.c, c) THEN s
  ELSE
    LET s1 == [s EXCEPT !.stopped = TRUE,
                        !.claimed = Append(@, [p |-> p, cb |-> cb]),
                        !.updateL[p] = <<cb>> \o RemoveEventListener(@, cb)]
        s2 == DetailOnConnectToProvider(s1, cb, p)
    IN  OnProviderUpdate(s2, cb, c, Get(contextMap, p, c))

\* OnConsumerConnect without the validation of the event's context.
OnConsumerConnectNoValidate(s, p, c, cb) ==
  LET s1 == [s EXCEPT !.stopped = TRUE,
                      !.claimed = Append(@, [p |-> p, cb |-> cb]),
                      !.updateL[p] = AddEventListener(@, cb)]
      s2 == DetailOnConnectToProvider(s1, cb, p)
  IN  OnProviderUpdate(s2, cb, c, Get(contextMap, p, c))

\* onConsumerConnect of provider p for its context c, receiving the connect
\* event of discovery cb.
OnConsumerConnect(s, p, c, cb) ==
  IF ~Validate(cb.c, c) THEN s
  ELSE
    LET s1 == [s EXCEPT !.stopped = TRUE,
                        !.claimed = Append(@, [p |-> p, cb |-> cb]),
                        !.updateL[p] = AddEventListener(@, cb)]
        s2 == DetailOnConnectToProvider(s1, cb, p)
    IN  OnProviderUpdate(s2, cb, c, Get(contextMap, p, c))

\* The connect listeners of one element run in the order they were added,
\* until one stops immediate propagation.
RECURSIVE RunConnectListeners(_, _, _, _)
RunConnectListeners(s, p, ctxs, cb) ==
  IF ctxs = <<>> \/ s.stopped THEN s
  ELSE LET c  == Head(ctxs)
           s1 == IF c \in connectL[p] THEN OnConsumerConnect(s, p, c, cb)
                 ELSE s
       IN  RunConnectListeners(s1, p, Tail(ctxs), cb)

\* dispatchEvent(connect event): it bubbles along path, innermost first.
RECURSIVE DispatchConnect(_, _, _)
DispatchConnect(s, path, cb) ==
  IF path = <<>> \/ s.stopped THEN s
  ELSE DispatchConnect(RunConnectListeners(s, Head(path), ContextOrder, cb),
                       Tail(path), cb)

\* fireEventAndRetry(...).start(): dispatch now, keep retrying until stopped.
EstablishConnectionStart(s, path, cb) ==
  LET s1 == [s EXCEPT !.retrying = @ \cup {cb}]
  IN  [DispatchConnect(s1, path, cb) EXCEPT !.stopped = FALSE]

\* onConnectToProvider of the consumer binding, for each context of the
\* consumer class in turn.
RECURSIVE OnConnectToProvider(_, _, _, _)
OnConnectToProvider(s, k, ctxs, cyc) ==
  IF ctxs = <<>> THEN s
  ELSE LET c  == Head(ctxs)
           s1 == IF c \in consumes[k]
                 THEN EstablishConnectionStart(s, Ancestors(k),
                                               Callback(k, c, cyc))
                 ELSE s
       IN  OnConnectToProvider(s1, k, Tail(ctxs), cyc)

\* onDisconnectFromProvider created by provider w.p for callback w.cb.
OnDisconnectFromProvider(s, w, evCtx) ==
  IF ~Validate(evCtx, w.cb.c) THEN s
  ELSE [s EXCEPT !.updateL[w.p] = RemoveEventListener(@, w.cb),
                 !.cleaned = IF \E i \in 1..Len(s.updateL[w.p]) :
                                  s.updateL[w.p][i] = w.cb
                             THEN Append(@, w) ELSE @]

\* off(): removes onDisconnectFromProvider itself from the consumer.
Off(s, k, w) ==
  [s EXCEPT !.discL[k] =
     RemoveEventListener(@, [fn |-> "onDisconnectFromProvider",
                             p |-> w.p, cb |-> w.cb])]

\* The disconnect listeners of consumer k run on one disconnect event.
RECURSIVE RunDisconnectListeners(_, _, _, _)
RunDisconnectListeners(s, k, listeners, evCtx) ==
  IF listeners = <<>> THEN s
  ELSE LET w  == Head(listeners)
           s1 == IF w.fn = "wrapper"
                 THEN Off(OnDisconnectFromProvider(s, w, evCtx), k, w)
                 ELSE OnDisconnectFromProvider(s, w, evCtx)
       IN  RunDisconnectListeners(s1, k, Tail(listeners), evCtx)

\* consumerProto.disconnectedCallback, for each context of the class in turn.
RECURSIVE DispatchDisconnects(_, _, _)
DispatchDisconnects(s, k, ctxs) ==
  IF ctxs = <<>> THEN s
  ELSE LET c  == Head(ctxs)
           s1 == IF c \in consumes[k]
                 THEN RunDisconnectListeners(s, k, s.discL[k], c)
                 ELSE s
       IN  DispatchDisconnects(s1, k, Tail(ctxs))

\* ------------------------------------------------------------- history
\* last: the call that ran last, what it was given and what it did. rep
\* says that a set directly follows a set of an equal value on the same
\* provider property.
Record(op, el, c, v, old, cyc, s) ==
  [op |-> op, el |-> el, c |-> c, v |-> v, old |-> old, cyc |-> cyc,
   events |-> s.events, delivered |-> s.delivered, claimed |-> s.claimed,
   cleaned |-> s.cleaned,
   rep |-> op = "set" /\ last.op = "set" /\ last.el = el /\ last.c = c
           /\ last.v = v]

Commit(s) ==
  /\ updateL' = s.updateL
  /\ discL' = s.discL
  /\ retrying' = s.retrying
  /\ prop' = s.prop

\* ------------------------------------------------------------- actions
\* ProviderAttach that does not add the onConsumerConnect listener.
ProviderAttachNoListen(p) ==
  /\ provides[p] # {}
  /\ ~pAttached[p]
  /\ pAttached' = [pAttached EXCEPT ![p] = TRUE]
  /\ last' = Record("pattach", p, "-", NoEntry, NoEntry, 0, Cur)
  /\ UNCHANGED <<dvars, provides, consumes, kAttached, connectL, contextMap,
                 updateL, discL, retrying, cycle, prop>>

\* providerProto.connectedCallback
ProviderAttach(p) ==
  /\ provides[p] # {}
  /\ ~pAttached[p]
  /\ pAttached' = [pAttached EXCEPT ![p] = TRUE]
  /\ connectL' = [connectL EXCEPT ![p] = @ \cup provides[p]]
  /\ last' = Record("pattach", p, "-", NoEntry, NoEntry, 0, Cur)
  /\ UNCHANGED <<dvars, provides, consumes, kAttached, contextMap, updateL,
                 discL, retrying, cycle, prop>>

\* ProviderDetach that leaves the onConsumerConnect listener in place.
ProviderDetachKeepListener(p) ==
  /\ pAttached[p]
  /\ pAttached' = [pAttached EXCEPT ![p] = FALSE]
  /\ contextMap' = [contextMap EXCEPT ![p] =
       [c \in Contexts |-> IF c \in provides[p] THEN NoEntry ELSE @[c]]]
  /\ last' = Record("pdetach", p, "-", NoEntry, NoEntry, 0, Cur)
  /\ UNCHANGED <<dvars, provides, consumes, kAttached, connectL, updateL, discL,
                 retrying, cycle, prop>>

\* providerProto.disconnectedCallback
ProviderDetach(p) ==
  /\ pAttached[p]
  /\ pAttached' = [pAttached EXCEPT ![p] = FALSE]
  /\ connectL' = [connectL EXCEPT ![p] = @ \ provides[p]]
  /\ contextMap' = [contextMap EXCEPT ![p] =
       [c \in Contexts |-> IF c \in provides[p] THEN NoEntry ELSE @[c]]]
  /\ last' = Record("pdetach", p, "-", NoEntry, NoEntry, 0, Cur)
  /\ UNCHANGED <<dvars, provides, consumes, kAttached, updateL, discL, retrying,
                 cycle, prop>>

\* ProviderSet without the notEqual test.
ProviderSetAlways(p, c, v) ==
  /\ c \in provides[p]
  /\ LET old == Get(contextMap, p, c)
         s == DispatchUpdate([Cur EXCEPT !.events = <<v>>], updateL[p], c, v)
     IN  /\ contextMap' = [contextMap EXCEPT ![p][c] = v]
         /\ Commit(s)
         /\ last' = Record("set", p, c, v, old, 0, s)
  /\ UNCHANGED <<dvars, provides, consumes,
                 pAttached, kAttached, connectL, cycle>>

\* ProviderSet that dispatches the update but does not store the value.
ProviderSetNoStore(p, c, v) ==
  /\ c \in provides[p]
  /\ LET old == Get(contextMap, p, c)
     IN  IF notEqual(v, old)
         THEN LET s == DispatchUpdate([Cur EXCEPT !.events = <<v>>],
                                      updateL[p], c, v)
              IN  /\ UNCHANGED contextMap
                  /\ Commit(s)
                  /\ last' = Record("set", p, c, v, old, 0, s)
         ELSE /\ UNCHANGED <<contextMap, updateL, discL, retrying, prop>>
              /\ last' = Record("set", p, c, v, old, 0, Cur)
  /\ UNCHANGED <<dvars, provides, consumes,
                 pAttached, kAttached, connectL, cycle>>

\* propertyDescriptor.set
ProviderSet(p, c, v) ==
  /\ c \in provides[p]
  /\ LET old == Get(contextMap, p, c)
     IN  IF notEqual(v, old)
         THEN LET s == DispatchUpdate([Cur EXCEPT !.events = <<v>>],
                                      updateL[p], c, v)
              IN  /\ contextMap' = [contextMap EXCEPT ![p][c] = v]
                  /\ Commit(s)
                  /\ last' = Record("set", p, c, v, old, 0, s)
         ELSE /\ UNCHANGED <<contextMap, updateL, discL, retrying, prop>>
              /\ last' = Record("set", p, c, v, old, 0, Cur)
  /\ UNCHANGED <<dvars, provides, consumes,
                 pAttached, kAttached, connectL, cycle>>

\* The number of consumer attaches so far.
RECURSIVE SumCycles(_)
SumCycles(ks) ==
  IF ks = {} THEN 0
  ELSE LET k == CHOOSE x \in ks : TRUE IN cycle[k] + SumCycles(ks \ {k})

Attaches == SumCycles(Consumers)

\* consumerProto.connectedCallback
ConsumerAttach(k) ==
  /\ consumes[k] # {}
  /\ ~kAttached[k]
  /\ Attaches < MaxAttaches
  /\ kAttached' = [kAttached EXCEPT ![k] = TRUE]
  /\ cycle' = [cycle EXCEPT ![k] = @ + 1]
  /\ LET s == OnConnectToProvider(Cur, k, ContextOrder, cycle[k] + 1)
     IN  /\ Commit(s)
         /\ last' = Record("kattach", k, "-", NoEntry, NoEntry,
                           cycle[k] + 1, s)
  /\ UNCHANGED <<dvars, provides, consumes, pAttached, connectL, contextMap>>

\* The retry timer of discovery cb fires: the connect event is dispatched
\* again from the consumer. A consumer that is out of the tree has no
\* ancestors to bubble to.
RetryFire(cb) ==
  /\ cb \in retrying
  /\ LET path == IF kAttached[cb.k] THEN Ancestors(cb.k) ELSE <<>>
         s == [DispatchConnect(Cur, path, cb) EXCEPT !.stopped = FALSE]
     IN  /\ Commit(s)
         /\ last' = Record("retry", cb.k, cb.c, NoEntry, NoEntry, cb.cyc, s)
  /\ UNCHANGED <<dvars, provides, consumes, pAttached, kAttached, connectL,
                 contextMap, cycle>>

\* ConsumerDetach whose disconnect cleanups also delete the store entry of
\* the provider they were created by.
ConsumerDetachDelete(k) ==
  /\ kAttached[k]
  /\ kAttached' = [kAttached EXCEPT ![k] = FALSE]
  /\ contextMap' =
       [p \in Providers |-> [c \in Contexts |->
          IF \E i \in 1..Len(discL[k]) :
               discL[k][i].p = p /\ discL[k][i].cb.c = c
          THEN NoEntry ELSE contextMap[p][c]]]
  /\ LET s == DispatchDisconnects(Cur, k, ContextOrder)
     IN  /\ Commit(s)
         /\ last' = Record("kdetach", k, "-", NoEntry, NoEntry, cycle[k], s)
  /\ UNCHANGED <<dvars, provides, consumes, pAttached, connectL, cycle>>

\* consumerProto.disconnectedCallback
ConsumerDetach(k) ==
  /\ kAttached[k]
  /\ kAttached' = [kAttached EXCEPT ![k] = FALSE]
  /\ LET s == DispatchDisconnects(Cur, k, ContextOrder)
     IN  /\ Commit(s)
         /\ last' = Record("kdetach", k, "-", NoEntry, NoEntry, cycle[k], s)
  /\ UNCHANGED <<dvars, provides, consumes,
                 pAttached, connectL, contextMap, cycle>>

\* ------------------------------------------------------ derived context
\* derivedContext(contexts, derivation) over the contexts A and B, whose
\* provider binding decorates one class; D1 and D2 are two elements of that
\* class. The class is decorated with A.provide() and B.provide() as well,
\* so every element holds its own value of both upstream contexts.
Derived == {"D1", "D2"}

\* The contexts the derived context is created from.
contexts == <<"A", "B">>

N == Len(contexts)

\* The derivation function given to derivedContext.
derivation(a, b) == 10 * a + b

\* derivation(...values)
Apply(vs) == derivation(vs[1], vs[2])

\* derivedContext: const defaultValue of the derived context.
derivedDefaultValue == Apply([i \in 1..N |-> DefaultValue(contexts[i])])

\* The listener (handleUpdate) that watch adds in attach number cyc of
\* element d for upstream context i; its stop function removes it.
Handler(d, i, cyc) == [el |-> d, i |-> i, cyc |-> cyc]

\* The part of the derived provider's state that nested calls change while
\* one hook runs, plus what the hook did: fresh is the set of value slots
\* written so far in this hook, runs lists the calls of the derivation,
\* each as the set of slots that had been written in this hook before it.
DCur ==
  [upMap |-> upMap, derivedMap |-> derivedMap, watchL |-> watchL,
   ready |-> ready, values |-> values, dispose |-> dispose,
   runs |-> <<>>, fresh |-> {}]

\* propertyDescriptor.get of upstream context i on element d, also what
\* watch reads as the current value.
UpGet(w, d, i) ==
  IF w.upMap[d][i] # NoEntry THEN w.upMap[d][i]
  ELSE DefaultValue(contexts[i])

\* propertyDescriptor.get of the derived context on element d.
DerivedGet(w, d) ==
  IF w.derivedMap[d] # NoEntry THEN w.derivedMap[d] ELSE derivedDefaultValue

\* propertyDescriptor.set of the derived context on element d. The update
\* event it dispatches is of the derived context: every watch listener on
\* d is of an upstream context and returns at validate.
DerivedSet(w, d, v) ==
  IF notEqual(v, DerivedGet(w, d)) THEN [w EXCEPT !.derivedMap[d] = v]
  ELSE w

\* sync.call(d): this[key] = derivation(...values)
sync(w, d) ==
  [DerivedSet(w, d, Apply(w.values)) EXCEPT
     !.runs = Append(@, w.fresh)]

\* The handler given to watch in connectedCallback of element d for
\* upstream i: values[i] = newValue; if (ready) sync.call(this).
handle(w, d, i, v) ==
  LET w1 == [w EXCEPT !.values[i] = v, !.fresh = @ \cup {i}]
  IN  IF w1.ready THEN sync(w1, d) ELSE w1

\* context.watch(d, handle) of upstream i in attach cyc of d: handle is
\* called with the current value, then the listener is added.
watch(w, d, i, cyc) ==
  [handle(w, d, i, UpGet(w, d, i)) EXCEPT
     !.watchL[d] = AddEventListener(@, Handler(d, i, cyc))]

\* connectedCallback: contexts.forEach((context, i) => { const stop =
\* context.watch(...); dispose.push(stop) }), from index i on.
RECURSIVE WatchEach(_, _, _, _)
WatchEach(w, d, cyc, i) ==
  IF i > N THEN w
  ELSE WatchEach([watch(w, d, i, cyc) EXCEPT
                    !.dispose = Append(@, Handler(d, i, cyc))],
                 d, cyc, i + 1)

\* The stop function watch returned for listener h.
stop(w, h) == [w EXCEPT !.watchL[h.el] = RemoveEventListener(@, h)]

\* disconnectedCallback: dispose.forEach((fn) => fn()), from index j on.
RECURSIVE DisposeEach(_, _)
DisposeEach(w, j) ==
  IF j > Len(w.dispose) THEN w
  ELSE DisposeEach(stop(w, w.dispose[j]), j + 1)

\* dispatchEvent of an update event of upstream i with detail v on an
\* element whose update listeners are list: handleUpdate of each listener
\* validates the event's context and calls its handle.
RECURSIVE DispatchWatch(_, _, _, _)
DispatchWatch(w, list, i, v) ==
  IF list = <<>> THEN w
  ELSE LET h == Head(list)
           w1 == IF Validate(contexts[i], contexts[h.i])
                 THEN handle(w, h.el, h.i, v) ELSE w
       IN  DispatchWatch(w1, Tail(list), i, v)

\* dlast: the kind of derived-provider call that ran last and the calls of
\* the derivation it made.
DRecord(op, w) == [op |-> op, runs |-> w.runs]

DCommit(w) ==
  /\ upMap' = w.upMap
  /\ derivedMap' = w.derivedMap
  /\ watchL' = w.watchL
  /\ ready' = w.ready
  /\ values' = w.values
  /\ dispose' = w.dispose

\* Number of connectedCallback calls of derived-provider elements so far.
DAttaches == dcycle["D1"] + dcycle["D2"]

\* Every connect listener of an element of the decorated class: of the
\* derived context's provider binding and of the upstream ones.
BoundContexts == {"A", "B", "derived"}

\* connectedCallback of element d of the class decorated with the derived
\* provider: the derived context's providerProto.connectedCallback adds
\* its connect listener and calls provideDerivedContext's
\* connectedCallback, which calls the upstream bindings' hooks.
DerivedAttach(d) ==
  /\ d \notin dAttached
  /\ DAttaches < MaxAttaches
  /\ dAttached' = dAttached \cup {d}
  /\ dcycle' = [dcycle EXCEPT ![d] = @ + 1]
  /\ dConnectL' = [dConnectL EXCEPT ![d] = BoundContexts]
  /\ LET w1 == WatchEach(DCur, d, dcycle[d] + 1, 1)
         w2 == sync([w1 EXCEPT !.ready = TRUE], d)
     IN  /\ DCommit(w2)
         /\ dlast' = DRecord("attach", w2)
  /\ UNCHANGED cvars

\* DerivedDetach that does not call the stop functions in dispose.
DerivedDetachNoDispose(d) ==
  /\ d \in dAttached
  /\ dAttached' = dAttached \ {d}
  /\ dConnectL' = [dConnectL EXCEPT ![d] = {}]
  /\ LET w1 == [DCur EXCEPT !.derivedMap[d] = NoEntry, !.ready = FALSE]
         w2 == [w1 EXCEPT !.upMap[d] = [i \in 1..N |-> NoEntry]]
     IN  /\ DCommit(w2)
         /\ dlast' = DRecord("detach", w2)
  /\ UNCHANGED <<cvars, dcycle>>

\* disconnectedCallback of element d: the derived context's
\* providerProto.disconnectedCallback removes its connect listener and
\* store entry and calls provideDerivedContext's disconnectedCallback,
\* which calls the upstream bindings' hooks (listener and store entry of
\* each upstream context on d removed).
DerivedDetach(d) ==
  /\ d \in dAttached
  /\ dAttached' = dAttached \ {d}
  /\ dConnectL' = [dConnectL EXCEPT ![d] = {}]
  /\ LET w1 == [DCur EXCEPT !.derivedMap[d] = NoEntry, !.ready = FALSE]
         w2 == DisposeEach(w1, 1)
         w3 == [w2 EXCEPT !.upMap[d] = [i \in 1..N |-> NoEntry]]
     IN  /\ DCommit(w3)
         /\ dlast' = DRecord("detach", w3)
  /\ UNCHANGED <<cvars, dcycle>>

\* d[property of upstream context i] = v: propertyDescriptor.set of the
\* upstream provider binding on element d, attached or not. A set of a
\* value equal to the current one does nothing at all.
UpstreamSet(d, i, v) ==
  /\ LET w0 == [DCur EXCEPT !.upMap[d][i] = v]
         w1 == DispatchWatch(w0, w0.watchL[d], i, v)
     IN  IF notEqual(v, UpGet(DCur, d, i))
         THEN /\ DCommit(w1)
              /\ dlast' = DRecord("set", w1)
         ELSE UNCHANGED <<upMap, derivedMap, watchL, ready, values,
                          dispose, dlast>>
  /\ UNCHANGED <<cvars, dAttached, dConnectL, dcycle>>

\* ------------------------------------------------------- specifications
InitState ==
  /\ pAttached = [p \in Providers |-> FALSE]
  /\ kAttached = [k \in Consumers |-> FALSE]
  /\ connectL = [p \in Providers |-> {}]
  /\ contextMap = [p \in Providers |-> [c \in Contexts |-> NoEntry]]
  /\ updateL = [p \in Providers |-> <<>>]
  /\ discL = [k \in Consumers |-> <<>>]
  /\ retrying = {}
  /\ cycle = [k \in Consumers |-> 0]
  /\ prop = [k \in Consumers |-> [c \in Contexts |-> NoEntry]]
  /\ last = [op |-> "init", el |-> "-", c |-> "-", v |-> NoEntry,
             old |-> NoEntry, cyc |-> 0, events |-> <<>>,
             delivered |-> <<>>, claimed |-> <<>>, cleaned |-> <<>>,
             rep |-> FALSE]
  /\ dAttached = {}
  /\ dConnectL = [d \in Derived |-> {}]
  /\ upMap = [d \in Derived |-> [i \in 1..N |-> NoEntry]]
  /\ derivedMap = [d \in Derived |-> NoEntry]
  /\ watchL = [d \in Derived |-> <<>>]
  /\ ready = FALSE
  /\ values = [i \in 1..N |-> NoEntry]
  /\ dispose = <<>>
  /\ dcycle = [d \in Derived |-> 0]
  /\ dlast = [op |-> "init", runs |-> <<>>]

\* Which contexts each element class is decorated with.
Config(p1, p2, k1, k2) ==
  /\ provides = [p \in Providers |-> IF p = "P1" THEN p1 ELSE p2]
  /\ consumes = [k \in Consumers |-> IF k = "K1" THEN k1 ELSE k2]

\* Nested providers P1 > P2 of context A and one consumer K1 of A.
Init == Config({"A"}, {"A"}, {"A"}, {}) /\ InitState

\* One provider P1 of context A above one consumer K1 of A.
InitFair == Config({"A"}, {}, {"A"}, {}) /\ InitState

\* One provider P1 of context A with two sibling consumers K1, K2 of A.
InitSiblings == Config({"A"}, {}, {"A"}, {"A"}) /\ InitState

\* P1 provides A, P2 (between P1 and the consumers) provides B; K1
\* consumes A, K2 consumes B.
InitBetween == Config({"A"}, {"B"}, {"A"}, {"B"}) /\ InitState

\* P1 provides both contexts; K1 consumes A, K2 consumes B.
InitContexts == Config({"A", "B"}, {}, {"A"}, {"B"}) /\ InitState

Next ==
  \/ \E p \in Providers : ProviderAttach(p)
  \/ \E p \in Providers : ProviderDetach(p)
  \/ \E p \in Providers : \E c \in Contexts : \E v \in ValuesOf(c) :
       ProviderSet(p, c, v)
  \/ \E k \in Consumers : ConsumerAttach(k)
  \/ \E cb \in AllCallbacks : RetryFire(cb)
  \/ \E k \in Consumers : ConsumerDetach(k)

Spec == Init /\ [][Next]_vars

\* A pending retry timer eventually fires.
Fairness == \A cb \in AllCallbacks : WF_vars(RetryFire(cb))

SpecFair == InitFair /\ [][Next]_vars /\ Fairness

SpecSiblings == InitSiblings /\ [][Next]_vars

SpecContexts == InitContexts /\ [][Next]_vars

SpecBetween == InitBetween /\ [][Next]_vars

\* Two elements D1, D2 of the class decorated with the derived provider;
\* no other provider or consumer class is in use.
InitDerived == Config({}, {}, {}, {}) /\ InitState

NextDerived ==
  \/ \E d \in Derived : DerivedAttach(d)
  \/ \E d \in Derived : DerivedDetach(d)
  \/ \E d \in Derived : \E i \in 1..N : \E v \in ValuesOf(contexts[i]) :
       UpstreamSet(d, i, v)

SpecDerived == InitDerived /\ [][NextDerived]_vars

\* ------------------------------------------------------- shared notions
Range(seq) == {seq[i] : i \in 1..Len(seq)}

\* The providers on which consumer k has an update callback of context c.
PairedWith(k, c) ==
  {p \in Providers : \E cb \in Range(updateL[p]) : cb.k = k /\ cb.c = c}

\* The attached providers of context c above consumer k, nearest first.
AttachedAbove(k, c) ==
  SelectSeq(Ancestors(k), LAMBDA p : pAttached[p] /\ c \in provides[p])

\* The discoveries whose connect event the last call dispatched.
Dispatched ==
  IF last.op = "kattach"
    THEN {Callback(last.el, c, last.cyc) : c \in consumes[last.el]}
  ELSE IF last.op = "retry" THEN {Callback(last.el, last.c, last.cyc)}
  ELSE {}

\* The providers that claimed the connect event of discovery cb in the last
\* call.
ClaimersOf(cb) == SelectSeq(last.claimed, LAMBDA cl : cl.cb = cb)

\* ---------------------------------------------------------------- C1
\* C1: in every reachable state a consumer has update callbacks of a given
\* context registered on at most one provider.
C1_AtMostOneProvider ==
  \A k \in Consumers : \A c \in Contexts : Cardinality(PairedWith(k, c)) <= 1

\* ---------------------------------------------------------------- C2
\* C2: every connect event dispatched by a consumer of context c is claimed
\* by at most one provider; the claimer is the nearest attached ancestor
\* providing c (which always claims it when the consumer is in the tree),
\* and no other provider holds that discovery's update callback.
C2_NearestProviderClaims ==
  \A cb \in Dispatched :
    LET cl == ClaimersOf(cb)
        above == AttachedAbove(cb.k, cb.c)
    IN  /\ Len(cl) <= 1
        /\ Len(cl) = 1 => above # <<>> /\ cl[1].p = Head(above)
        /\ (kAttached[cb.k] /\ above # <<>>) => Len(cl) = 1
        /\ \A p \in Providers :
             cb \in Range(updateL[p]) => Len(cl) = 1 /\ cl[1].p = p

\* A connect event was claimed by the inner provider while the outer
\* provider of the same context was attached too.
C2_Witness ==
  /\ last.op \in {"kattach", "retry"}
  /\ Len(last.claimed) = 1
  /\ last.claimed[1].p = "P2"
  /\ pAttached["P1"]
  /\ last.claimed[1].cb.c \in provides["P1"]

\* ---------------------------------------------------------------- C3
\* C3: set(P, v) with v equal to P's current value (stored, or the default
\* when P has no entry) changes nothing and dispatches no update event;
\* with v not equal, the store then maps P to v and exactly one update
\* event carrying v is dispatched.
C3_SetFrame ==
  [][last'.op = "set" =>
       LET p == last'.el
           c == last'.c
           v == last'.v
           cur == IF contextMap[p][c] = NoEntry THEN DefaultValue(c)
                  ELSE contextMap[p][c]
       IN  IF v = cur
           THEN /\ contextMap' = contextMap
                /\ last'.events = <<>>
                /\ last'.delivered = <<>>
                /\ UNCHANGED <<updateL, discL, retrying, prop>>
           ELSE /\ contextMap' = [contextMap EXCEPT ![p][c] = v]
                /\ last'.events = <<v>>]_vars

\* A set of the value the provider already stores was made.
C3_Witness ==
  /\ last.op = "set"
  /\ last.events = <<>>
  /\ contextMap[last.el][last.c] = last.v
  /\ updateL[last.el] # <<>>

\* ---------------------------------------------------------------- C4
\* C4 (as stated): set(P, v1) directly followed by set(P, v2) with v1 equal
\* to v2 dispatches exactly one update event in total, whatever P's value
\* was before the first call.
C4_ExactlyOneEvent ==
  [][last'.rep => Len(last.events) + Len(last'.events) = 1]_vars

\* C4 (amended): set(P, v1) directly followed by set(P, v2) with v1 equal to
\* v2 dispatches at most one update event in total: the second call
\* dispatches none, and the first dispatches one exactly when v1 is not
\* equal to P's value before the first call.
C4_AtMostOneEvent ==
  [][last'.rep =>
       /\ last'.events = <<>>
       /\ Len(last.events) = (IF last.v # last.old THEN 1 ELSE 0)
       /\ Len(last.events) + Len(last'.events) <= 1]_vars

\* Two sets of an equal value in a row, the first of which changed the
\* value.
C4_Witness ==
  /\ last.rep
  /\ last.old = last.v
  /\ contextMap[last.el][last.c] = last.v
  /\ last.v # DefaultValue(last.c)

\* ---------------------------------------------------------------- C5
\* C5: when a provider claims a consumer's connect event, the consumer's
\* update callback runs within that same call with the provider's current
\* value (the default when it has no entry), so right after pairing the
\* consumer's property equals transform(provider's current value).
C5_SyncedOnPairing ==
  \A i \in 1..Len(last.claimed) :
    LET p == last.claimed[i].p
        cb == last.claimed[i].cb
        cur == IF contextMap[p][cb.c] = NoEntry THEN DefaultValue(cb.c)
               ELSE contextMap[p][cb.c]
    IN  /\ cb \in Range(last.delivered)
        /\ prop[cb.k][cb.c] = transform(cb.k, cur)

\* A consumer was paired with a provider that stores a non-default value.
C5_Witness ==
  /\ Len(last.claimed) = 1
  /\ contextMap[last.claimed[1].p][last.claimed[1].cb.c]
       \notin {NoEntry, DefaultValue(last.claimed[1].cb.c)}

\* ---------------------------------------------------------------- C6
\* C6: when a consumer paired with provider P detaches, the number of
\* update callbacks registered on P decreases by exactly one, and no update
\* event dispatched by P changes the property of a detached consumer.
C6_DetachRemovesOne ==
  [][/\ last'.op = "kdetach" =>
          \A p \in Providers :
            (\E cb \in Range(updateL[p]) : cb.k = last'.el)
              => Len(updateL'[p]) = Len(updateL[p]) - 1
     /\ last'.op = "set" =>
          \A k \in Consumers : ~kAttached[k] => prop'[k] = prop[k]]_vars

\* ---------------------------------------------------------------- C7
\* C7: once a consumer has detached, no connect event of an attach cycle
\* that ended is dispatched, and no update callback of such a cycle is
\* registered on a provider.
C7_DetachCancelsRetries ==
  /\ last.op = "retry" => kAttached[last.el] /\ last.cyc = cycle[last.el]
  /\ \A p \in Providers : \A cb \in Range(updateL[p]) :
       kAttached[cb.k] /\ cb.cyc = cycle[cb.k]

\* ---------------------------------------------------------------- C8
\* Consumer k is attached below an attached provider of c and the discovery
\* of its current attach has not been claimed.
Waiting(k, c) ==
  /\ kAttached[k]
  /\ c \in consumes[k]
  /\ AttachedAbove(k, c) # <<>>
  /\ \A p \in Providers : Callback(k, c, cycle[k]) \notin Range(updateL[p])

\* The discovery of k's current attach is claimed by a provider and k's
\* property is transform(that provider's current value).
Converged(k, c) ==
  \E p \in Providers :
    /\ Callback(k, c, cycle[k]) \in Range(updateL[p])
    /\ prop[k][c] = transform(k, IF contextMap[p][c] = NoEntry
                                 THEN DefaultValue(c) ELSE contextMap[p][c])

\* C8: when pending retries eventually fire, an attached consumer that is
\* not yet paired while a provider of its context is attached above it
\* becomes paired, with its property equal to transform(provider's current
\* value), unless it detaches or no such provider stays attached.
C8_EventuallyPaired ==
  \A k \in Consumers : \A c \in Contexts :
    Waiting(k, c) ~>
      (Converged(k, c) \/ ~kAttached[k] \/ AttachedAbove(k, c) = <<>>)

\* A retry, fired after the provider attached, paired a consumer that had
\* attached before any provider.
C8_Witness ==
  /\ last.op = "retry"
  /\ Len(last.claimed) = 1
  /\ last.cyc = cycle[last.el]
  /\ kAttached[last.el]
  /\ Converged(last.el, last.c)

\* ---------------------------------------------------------------- C9
\* s is t with some elements left out, in the same order.
Without(t, s) == SelectSeq(t, LAMBDA x : x \in Range(s)) = s

\* t is s with elements added at the end.
Extends(t, s) == Len(s) <= Len(t) /\ SubSeq(t, 1, Len(s)) = s

\* C9: an update event dispatched by a provider is received by every
\* callback registered on it for that context, in the order in which the
\* callbacks were registered: a pairing registers at the end of the
\* provider's list, nothing else reorders the list, and a dispatch runs
\* the list front to back and leaves every receiver's property at
\* transform(new value).
C9_RegistrationOrder ==
  [][/\ \A p \in Providers :
          IF last'.op \in {"kattach", "retry"}
          THEN Extends(updateL'[p], updateL[p])
          ELSE Without(updateL[p], updateL'[p])
     /\ \A i \in 1..Len(last'.claimed) :
          LET cl == last'.claimed[i]
          IN  cl.cb \notin Range(updateL[cl.p])
                => updateL'[cl.p][Len(updateL'[cl.p])] = cl.cb
     /\ (last'.op = "set" /\ last'.events # <<>>) =>
          /\ last'.delivered =
               SelectSeq(updateL[last'.el], LAMBDA cb : cb.c = last'.c)
          /\ \A cb \in Range(last'.delivered) :
               prop'[cb.k][cb.c] = transform(cb.k, last'.v)]_vars

\* An update reached two sibling consumers, K2 (registered first) before K1.
C9_Witness ==
  /\ last.op = "set"
  /\ Len(last.delivered) = 2
  /\ last.delivered[1].k = "K2"
  /\ last.delivered[2].k = "K1"
  /\ prop["K1"][last.c] = transform("K1", last.v)
  /\ prop["K2"][last.c] = transform("K2", last.v)

\* ---------------------------------------------------------------- C10
\* C10: an update event of one context never changes the property a
\* consumer binds to another context, also when one element provides both
\* contexts; a consumer's property is unset or transform(v) for a value v
\* of its own context.
C10_NoCrossContextUpdate ==
  [][/\ last'.op = "set" =>
          \A k \in Consumers : \A c \in Contexts \ {last'.c} :
            prop'[k][c] = prop[k][c]
     /\ \A k \in Consumers : \A c \in Contexts :
          prop'[k][c] \in {NoEntry} \cup {transform(k, v) : v \in ValuesOf(c)}
    ]_vars

\* The element providing both contexts dispatched an update of context A
\* while it held callbacks of consumers of A and of B; only the consumer of
\* A received it.
C10_Witness ==
  /\ last.op = "set"
  /\ last.c = "A"
  /\ last.events # <<>>
  /\ \E cb \in Range(updateL[last.el]) : cb.c = "B"
  /\ \E cb \in Range(updateL[last.el]) : cb.c = "A"
  /\ \A cb \in Range(last.delivered) : cb.c = "A"
  /\ last.delivered # <<>>

\* ---------------------------------------------------------------- C11
\* C11: a provider that does not provide context c ignores a connect event
\* of c: it registers no callback of c and does not stop the event, so the
\* event is claimed by the nearest attached ancestor that provides c, also
\* when a provider of another context sits between.
C11_ForeignProviderIgnores ==
  /\ \A p \in Providers : \A cb \in Range(updateL[p]) : cb.c \in provides[p]
  /\ \A i \in 1..Len(last.claimed) :
       last.claimed[i].cb.c \in provides[last.claimed[i].p]
  /\ \A cb \in Dispatched :
       (kAttached[cb.k] /\ AttachedAbove(cb.k, cb.c) # <<>>) =>
         /\ cb \in Range(updateL[Head(AttachedAbove(cb.k, cb.c))])
         /\ cb \notin retrying

\* The consumer of A was claimed by P1 while P2, which provides only B and
\* sits between them, was attached.
C11_Witness ==
  /\ last.op \in {"kattach", "retry"}
  /\ \E i \in 1..Len(last.claimed) :
       /\ last.claimed[i].p = "P1"
       /\ last.claimed[i].cb.c = "A"
  /\ pAttached["P2"]
  /\ provides["P2"] = {"B"}

\* ---------------------------------------------------------------- C12
\* C12: a provider's detach removes its connect listener and its store
\* entry in that same step, so that get returns the default; a detached
\* provider claims no connect event, and a discovery dispatched while it is
\* detached is claimed by a farther attached provider of the context or by
\* none.
C12_DetachedProviderInert ==
  [][/\ last'.op = "pdetach" =>
          /\ connectL'[last'.el] = {}
          /\ \A c \in provides[last'.el] :
               /\ contextMap'[last'.el][c] = NoEntry
               /\ Get(contextMap', last'.el, c) = DefaultValue(c)
     /\ \A i \in 1..Len(last'.claimed) : pAttached[last'.claimed[i].p]
     /\ \A p \in Providers :
          (~pAttached[p] /\ last'.op \in {"kattach", "retry"})
            => updateL'[p] = updateL[p]
     /\ last'.op = "retry" =>
          LET cb == Callback(last'.el, last'.c, last'.cyc)
              above == AttachedAbove(cb.k, cb.c)
          IN  IF kAttached[cb.k] /\ above # <<>>
              THEN cb \in Range(updateL'[Head(above)])
              ELSE /\ last'.claimed = <<>>
                   /\ cb \in retrying']_vars

\* A retry was claimed by the outer provider P1 while the inner provider P2
\* was detached with no store entry.
C12_Witness ==
  /\ last.op = "retry"
  /\ Len(last.claimed) = 1
  /\ last.claimed[1].p = "P1"
  /\ ~pAttached["P2"]
  /\ "A" \in provides["P2"]
  /\ contextMap["P2"]["A"] = NoEntry
  /\ cycle[last.el] = last.cyc

\* ---------------------------------------------------------------- C16
\* C16: for every update event dispatched by a provider, each consumer
\* paired with it runs its transform exactly once, and afterwards the
\* property of every paired consumer is transform(new value).
C16_TransformOncePerUpdate ==
  (last.op = "set" /\ last.events # <<>>) =>
    \A k \in Consumers :
      LET runs == SelectSeq(last.delivered, LAMBDA cb : cb.k = k)
      IN  IF last.el \in PairedWith(k, last.c)
          THEN Len(runs) = 1 /\ prop[k][last.c] = transform(k, last.v)
          ELSE runs = <<>>

\* ---------------------------------------------------------------- C17
\* C17: after a provider detaches no consumer update callback remains
\* registered on it, and a set on a detached provider changes no consumer's
\* property.
C17_ProviderDetachUnpairs ==
  /\ \A p \in Providers : ~pAttached[p] => updateL[p] = <<>>
  /\ (last.op = "set" /\ ~pAttached[last.el]) => last.delivered = <<>>

\* ---------------------------------------------------------------- C18
\* C18: on a consumer's detach, the disconnect cleanups of pairings that
\* were already cleaned up run again as no-ops: update callbacks of other
\* consumers stay registered in the same order, only callbacks of the
\* detaching consumer that were registered are removed, and no provider's
\* store, no property and no retry changes.
C18_StaleCleanupIsNoOp ==
  [][last'.op = "kdetach" =>
       /\ contextMap' = contextMap
       /\ prop' = prop
       /\ retrying' = retrying
       /\ \A p \in Providers :
            /\ SelectSeq(updateL'[p], LAMBDA cb : cb.k # last'.el)
                 = SelectSeq(updateL[p], LAMBDA cb : cb.k # last'.el)
            /\ updateL'[p] =
                 SelectSeq(updateL[p], LAMBDA cb :
                   ~\E i \in 1..Len(last'.cleaned) :
                      last'.cleaned[i].p = p /\ last'.cleaned[i].cb = cb)
       /\ \A i \in 1..Len(last'.cleaned) :
            /\ last'.cleaned[i].cb.k = last'.el
            /\ last'.cleaned[i].cb \in Range(updateL[last'.cleaned[i].p])]_vars

\* A consumer detached for the second time: the cleanup of its first
\* pairing ran again and removed nothing, the cleanup of its second pairing
\* removed its callback, while the provider held a stored value.
C18_Witness ==
  /\ last.op = "kdetach"
  /\ last.cyc = 2
  /\ last.cleaned # <<>>
  /\ \E i \in 1..Len(discL[last.el]) :
       /\ discL[last.el][i].cb.cyc = 1
       /\ \A j \in 1..Len(last.cleaned) : last.cleaned[j] # discL[last.el][i]
       /\ contextMap[discL[last.el][i].p][discL[last.el][i].cb.c] # NoEntry

\* ---------------------------------------------------------------- C20
\* C20: the number of disconnect listeners on a consumer never exceeds the
\* number of its live pairings (update callbacks of it registered on
\* providers); after a detach none is left.
C20_DisconnectListenersBounded ==
  \A k \in Consumers :
    /\ Len(discL[k]) <=
         Cardinality({pc \in Providers \X AllCallbacks :
                        pc[2].k = k /\ pc[2] \in Range(updateL[pc[1]])})
    /\ ~kAttached[k] => discL[k] = <<>>

\* ------------------------------------------------------ derived notions
\* The derived value read on element d.
DerivedValue(d) == DerivedGet(DCur, d)

\* The latest value of every upstream context as seen on element d.
Upstream(d) == [i \in 1..N |-> UpGet(DCur, d, i)]

\* The watch listeners on element d that are of upstream context i.
Subscriptions(d, i) == {j \in 1..Len(watchL[d]) : watchL[d][j].i = i}

\* --------------------------------------------------------------- C13
\* C13: on every attached element of the class bound to the derived
\* provider, also with several elements of it attached at once, the derived
\* value equals the derivation of the latest upstream values of that same
\* element.
C13_DerivedValueIsDerivation ==
  \A d \in dAttached : DerivedValue(d) = Apply(Upstream(d))

\* --------------------------------------------------------------- C14
\* C14: an element that has no derived value stored reads the derivation
\* of the upstream defaults, and a step in which upstream i alone changes
\* to v on an attached element d leaves d's derived value at the derivation
\* of v and the unchanged latest values of the other upstreams.
C14_SingleUpstreamChange ==
  [][\A d \in Derived :
       /\ derivedMap[d] = NoEntry =>
            DerivedValue(d)
              = derivation(DefaultValue("A"), DefaultValue("B"))
       /\ \A i \in 1..N :
            (/\ d \in dAttached /\ d \in dAttached'
             /\ upMap'[d][i] # upMap[d][i]) =>
              /\ derivedMap'[d] # NoEntry
              /\ derivedMap'[d]
                   = Apply([j \in 1..N |->
                              IF j = i THEN upMap'[d][i]
                              ELSE Upstream(d)[j]])]_vars

\* --------------------------------------------------------------- C15
\* C15: a detach of element d leaves no watch listener on d and resets
\* ready; an upstream change on d while it is detached runs no derivation
\* and leaves its derived value as it is; every attach of d, the first or
\* a later one, leaves d with exactly one watch listener per upstream
\* context and with the derivation of its current upstream values.
C15_DetachReleasesAttachRestores ==
  [][\A d \in Derived :
       /\ (d \in dAttached /\ d \notin dAttached') =>
            /\ watchL'[d] = <<>>
            /\ ~ready'
       /\ (d \notin dAttached /\ d \notin dAttached'
             /\ upMap'[d] # upMap[d]) =>
            /\ dlast'.runs = <<>>
            /\ derivedMap'[d] = derivedMap[d]
            /\ watchL'[d] = <<>>
       /\ (d \notin dAttached /\ d \in dAttached') =>
            /\ Len(watchL'[d]) = N
            /\ \A i \in 1..N :
                 \E j \in 1..N : watchL'[d][j] = Handler(d, i, dcycle'[d])
            /\ ready'
            /\ (IF derivedMap'[d] # NoEntry THEN derivedMap'[d]
                ELSE derivedDefaultValue)
                 = Apply([i \in 1..N |->
                            IF upMap'[d][i] # NoEntry THEN upMap'[d][i]
                            ELSE DefaultValue(contexts[i])])]_vars

\* An element was attached a second time, after an upstream value was set
\* on it while it was detached, and holds a derived value of its own.
C15_Witness ==
  /\ dlast.op = "attach"
  /\ \E d \in dAttached :
       /\ dcycle[d] = 2
       /\ derivedMap[d] \notin {NoEntry, derivedDefaultValue}
       /\ \A i \in 1..N : Cardinality(Subscriptions(d, i)) = 1

\* --------------------------------------------------------------- C19
\* C19: every attach of an element runs the derivation exactly once, after
\* all N value slots have been written in that same attach.
C19_DerivationOncePerAttach ==
  [][(\E d \in Derived : d \notin dAttached /\ d \in dAttached') =>
       dlast'.runs = <<1..N>>]_vars

====
